---- MODULE Spec2Model ----
(***************************************************************************)
(* Model of AttendanceService (backend/app/services/attendance_service.py) *)
(* over a spreadsheet grid.  Strings are sequences of one-character        *)
(* strings so that str.strip() and str.lower() are computed, not assumed.  *)
(* Python list indices are 0-based; grid rows/columns of the worksheet are *)
(* 1-based as in gspread.  A Python index i addresses element i+1 of the   *)
(* corresponding TLA+ sequence.                                            *)
(***************************************************************************)
EXTENDS Integers, Sequences, FiniteSets, TLC

VARIABLES sheet, pre, op, call, ret, ncalls, store, inflight

vars == <<sheet, pre, op, call, ret, ncalls, store, inflight>>

(***************************************************************************)
(* Bounds of the model.                                                    *)
(***************************************************************************)
MaxRows == 5
MaxCols == 5
MaxInitRows == 2
MaxObs == 2
MaxCalls == 1
MaxFileRows == 2

(***************************************************************************)
(* Strings.                                                                *)
(***************************************************************************)
SetMax(S) == CHOOSE x \in S : \A y \in S : y <= x
SetMin(S) == CHOOSE x \in S : \A y \in S : x <= y

\* str.lower() on one character
LowerOf ==
    [A |-> "a", B |-> "b", C |-> "c", D |-> "d", E |-> "e", F |-> "f",
     G |-> "g", H |-> "h", I |-> "i", J |-> "j", K |-> "k", L |-> "l",
     M |-> "m", N |-> "n", O |-> "o", P |-> "p", Q |-> "q", R |-> "r",
     S |-> "s", T |-> "t", U |-> "u", V |-> "v", W |-> "w", X |-> "x",
     Y |-> "y", Z |-> "z"]

LowerChar(c) == IF c \in DOMAIN LowerOf THEN LowerOf[c] ELSE c

\* str.lower()
Lower(s) == [i \in 1..Len(s) |-> LowerChar(s[i])]

\* str.strip()
Strip(s) ==
    LET I == {i \in 1..Len(s) : s[i] # " "}
    IN IF I = {} THEN <<>> ELSE SubSeq(s, SetMin(I), SetMax(I))

\* the `in` operator on strings: t occurs in s as a substring
Contains(s, t) ==
    \E i \in 0..(Len(s) - Len(t)) : SubSeq(s, i + 1, i + Len(t)) = t

Present == <<"P","r","e","s","e","n","t">>
NotPresent == <<"N","o","t"," ","P","r","e","s","e","n","t">>
Statuses == {Present, NotPresent}

(***************************************************************************)
(* The worksheet: a grid of cells, "" where nothing was written.           *)
(***************************************************************************)
EmptySheet == [r \in 1..MaxRows |-> [c \in 1..MaxCols |-> <<>>]]

UsedRows(sh) == {r \in 1..MaxRows : \E c \in 1..MaxCols : sh[r][c] # <<>>}
UsedCols(sh) == {c \in 1..MaxCols : \E r \in 1..MaxRows : sh[r][c] # <<>>}

\* worksheet.get_all_values(): the used range, rows padded to equal length
get_all_values(sh) ==
    IF UsedRows(sh) = {} THEN <<>>
    ELSE [r \in 1..SetMax(UsedRows(sh)) |->
            [c \in 1..SetMax(UsedCols(sh)) |-> sh[r][c]]]

\* worksheet.update_cell(row, col, value), 1-indexed
update_cell(sh, row, col, value) == [sh EXCEPT ![row][col] = value]

\* a write is <<row, col, value>>; apply a sequence of them in order
RECURSIVE ApplyWrites(_, _)
ApplyWrites(sh, ws) ==
    IF ws = <<>> THEN sh
    ELSE ApplyWrites(update_cell(sh, ws[1][1], ws[1][2], ws[1][3]), Tail(ws))

InGrid(ws) ==
    \A i \in 1..Len(ws) : ws[i][1] \in 1..MaxRows /\ ws[i][2] \in 1..MaxCols

(***************************************************************************)
(* submit_attendance                                                       *)
(***************************************************************************)
\* lines 248-254: index of the first header beyond columns A and B that
\* equals the date after trimming; -1 stands for None
FindDateCol(header_row, date) ==
    LET M == {idx \in 2..(Len(header_row) - 1) :
                 Strip(header_row[idx + 1]) = date}
    IN IF M = {} THEN -1 ELSE SetMin(M)

\* lines 259-269: the column a new date is written to
NewDateCol(header_row) ==
    LET E == {idx \in 1..(Len(header_row) - 1) :
                 Strip(header_row[idx + 1]) = <<>>}
    IN IF E = {} THEN Len(header_row) ELSE SetMin(E)

date_col_index(header_row, date) ==
    IF FindDateCol(header_row, date) # -1
    THEN FindDateCol(header_row, date)
    ELSE NewDateCol(header_row)

\* variant of HeaderWrites: the date is written one row too low
HeaderWritesSecondRow(header_row, date) ==
    IF FindDateCol(header_row, date) # -1 THEN <<>>
    ELSE << <<2, NewDateCol(header_row) + 1, date>> >>

\* lines 271-273: the header write, only when the date was not found
HeaderWrites(header_row, date) ==
    IF FindDateCol(header_row, date) # -1 THEN <<>>
    ELSE << <<1, NewDateCol(header_row) + 1, date>> >>

\* line 282: the name cell of a grid row (column B)
NameCell(row) == IF Len(row) > 1 THEN row[2] ELSE <<>>

NonEmpty(s) == s # <<>>

\* lines 278-286: trimmed non-empty names of rows 2.., in row order
ExistingNames(all_values) ==
    LET col == [i \in 1..(Len(all_values) - 1) |->
                    Strip(NameCell(all_values[i + 1]))]
    IN SelectSeq(col, NonEmpty)

\* line 293: dict comprehension keyed by the trimmed lower-cased name;
\* a later item with the same key replaces an earlier one
AttendanceLowerHas(attendance, name_lower) ==
    \E i \in 1..Len(attendance) :
        Lower(Strip(attendance[i].name)) = name_lower

AttendanceLowerGet(attendance, name_lower) ==
    LET I == {i \in 1..Len(attendance) :
                 Lower(Strip(attendance[i].name)) = name_lower}
    IN attendance[SetMax(I)].status

\* lines 296-308: one write per collected name, rows numbered from 2
RowStatus(attendance, name) ==
    IF AttendanceLowerHas(attendance, Lower(name))
    THEN AttendanceLowerGet(attendance, Lower(name))
    ELSE NotPresent

RowWrites(names, attendance, col) ==
    [k \in 1..Len(names) |-> <<k + 1, col + 1, RowStatus(attendance, names[k])>>]

\* lines 311-320: items whose identity is not in the sheet, first one kept
IsNewMember(attendance, names, i) ==
    /\ \A k \in 1..Len(names) :
          Lower(names[k]) # Lower(Strip(attendance[i].name))
    /\ \A j \in 1..(i - 1) :
          Lower(Strip(attendance[j].name)) # Lower(Strip(attendance[i].name))

RECURSIVE NewMembersFrom(_, _, _)
NewMembersFrom(attendance, names, i) ==
    IF i > Len(attendance) THEN <<>>
    ELSE (IF IsNewMember(attendance, names, i)
          THEN << [name |-> Strip(attendance[i].name),
                   status |-> attendance[i].status] >>
          ELSE <<>>) \o NewMembersFrom(attendance, names, i + 1)

NewMembers(attendance, names) == NewMembersFrom(attendance, names, 1)

\* lines 322-334: name then status for each new member, rows from
\* len(all_values) + 1
RECURSIVE NewMemberWrites(_, _, _)
NewMemberWrites(new_members, next_row, col) ==
    IF new_members = <<>> THEN <<>>
    ELSE << <<next_row, 2, new_members[1].name>>,
            <<next_row, col + 1, new_members[1].status>> >>
         \o NewMemberWrites(Tail(new_members), next_row + 1, col)

\* every update_cell of one call, in program order
SubmitWrites(all_values, date, attendance) ==
    LET header_row == all_values[1]
        col == date_col_index(header_row, date)
        names == ExistingNames(all_values)
    IN HeaderWrites(header_row, date)
       \o RowWrites(names, attendance, col)
       \o NewMemberWrites(NewMembers(attendance, names),
                          Len(all_values) + 1, col)

(***************************************************************************)
(* Inputs of the model.                                                    *)
(***************************************************************************)
sID == <<"I","D">>
sName == <<"N","a","m","e">>
sAl == <<"A","l">>
sBo == <<"B","o">>
sOne == <<"1">>
sD1 == <<"d","1">>
sD2 == <<"d","2">>

\* member names found in the starting tables ("" is a row without a name)
InitNames == {<<>>, sAl}

\* keys of submitted observations
Keys == {sAl, <<"a","l"," ">>, <<"n","a","n">>}

\* date strings of submissions
Dates == {sD1, <<" ","d","1">>}

\* header rows of the starting tables
InitHeaders == {<<sID>>, <<sID, sName>>, <<sID, sName, <<" ","d","1">> >>,
                <<sID, sName, <<>>, sD2>>}

SeqsUpTo(S, n) == UNION {[1..k -> S] : k \in 0..n}

\* a dict has pairwise different keys; its items keep insertion order
Observations ==
    {a \in SeqsUpTo([name : Keys, status : Statuses], MaxObs) :
        \A i, j \in 1..Len(a) : i # j => a[i].name # a[j].name}

\* identity of a name: trimmed and lower-cased
Ident(s) == Lower(Strip(s))

NameColumns ==
    {n \in SeqsUpTo(InitNames, MaxInitRows) :
        \A i, j \in 1..Len(n) :
            (i # j /\ n[i] # <<>>) => Ident(n[i]) # Ident(n[j])}

\* a starting table: a header row, then rows with an id and maybe a name
InitTable(header, namecol) ==
    [r \in 1..MaxRows |-> [c \in 1..MaxCols |->
        IF r = 1 THEN (IF c <= Len(header) THEN header[c] ELSE <<>>)
        ELSE IF r - 1 <= Len(namecol)
             THEN (IF c = 1 THEN sOne ELSE IF c = 2 THEN namecol[r - 1] ELSE <<>>)
             ELSE <<>>]]

InitTables ==
    {EmptySheet} \cup
    {InitTable(h, n) : h \in InitHeaders, n \in NameColumns}

NoCall == [date |-> <<>>, attendance |-> <<>>]

\* the backing store: "up", "down" (gspread raises) or "unconfigured" (the
\* sheet URL of lines 91, 227 is missing)
StoreStates == {"up", "down", "unconfigured"}

\* the submit_attendance calls that are stepped through write by write
Requests == {1, 2}

IdleRequest ==
    [pc |-> "idle", date |-> <<>>, attendance |-> <<>>, writes |-> <<>>,
     done |-> 0, ret |-> "none", overlaps |-> FALSE]

NoRequests == [p \in Requests |-> IdleRequest]

Init ==
    /\ sheet \in InitTables
    /\ pre = sheet
    /\ op = "idle"
    /\ call = NoCall
    /\ ret = "none"
    /\ ncalls = 0
    /\ store = "up"
    /\ inflight = NoRequests

\* the table one call leaves behind when every write succeeds
SubmitResult(sh, date, attendance) ==
    ApplyWrites(sh, SubmitWrites(get_all_values(sh), date, attendance))

\* AttendanceService.submit_attendance, lines 223-341, called by the
\* /attendance endpoint with the date and the decoded observation
submit_attendance(date, attendance) ==
    /\ op = "idle"
    /\ ncalls < MaxCalls
    /\ IF store # "up"
       THEN \* lines 227-230: ValueError or gspread's error, re-raised at 341
            /\ sheet' = sheet
            /\ ret' = "error"
       ELSE IF get_all_values(sheet) = <<>>
       THEN \* line 241: ValueError, re-raised at line 341
            /\ sheet' = sheet
            /\ ret' = "error"
       ELSE /\ InGrid(SubmitWrites(get_all_values(sheet), date, attendance))
            /\ sheet' = SubmitResult(sheet, date, attendance)
            /\ ret' = "ok"
    /\ pre' = sheet
    /\ op' = "submit_attendance"
    /\ call' = [date |-> date, attendance |-> attendance]
    /\ ncalls' = ncalls + 1
    /\ UNCHANGED <<store, inflight>>

\* POST /attendance, routers/minutes.py lines 193-224: the status code the
\* endpoint answers with once the text decoded to a dict; 200 after the
\* service returned, 500 after it raised
attendance_endpoint_status(result) == IF result = "ok" THEN 200 ELSE 500

\* the endpoint answers and the request's context is gone
Respond ==
    /\ op # "idle"
    /\ op' = "idle"
    /\ pre' = sheet
    /\ call' = NoCall
    /\ ret' = "none"
    /\ UNCHANGED <<sheet, ncalls, store, inflight>>

Next ==
    \/ \E date \in Dates, attendance \in Observations :
          submit_attendance(date, attendance)
    \/ Respond

Spec == Init /\ [][Next]_vars

TypeOK == ncalls \in 0..MaxCalls

(***************************************************************************)
(* parse_attendance_file.  The DataFrame is a sequence of rows of cells; a *)
(* cell is [na |-> TRUE] for NaN or carries the text str() gives for it.   *)
(***************************************************************************)
sNan == <<"n","a","n">>
sNone == <<"n","o","n","e">>

NaCell == [na |-> TRUE, s |-> <<>>]
TextCell(t) == [na |-> FALSE, s |-> t]

\* str(x): "nan" for NaN
StrOf(cell) == IF cell.na THEN sNan ELSE cell.s

EndsWith(s, t) ==
    Len(s) >= Len(t) /\ SubSeq(s, Len(s) - Len(t) + 1, Len(s)) = t

\* lines 351-352
is_excel(filename) ==
    \/ EndsWith(Lower(filename), <<".","x","l","s","x">>)
    \/ EndsWith(Lower(filename), <<".","x","l","s">>)

\* variant of is_csv: the suffix compared without its dot
is_csvNoDot(filename) == EndsWith(Lower(filename), <<"c","s","v">>)

is_csv(filename) == EndsWith(Lower(filename), <<".","c","s","v">>)

\* ' '.join(...)
RECURSIVE JoinSpace(_)
JoinSpace(ss) ==
    IF ss = <<>> THEN <<>>
    ELSE IF Len(ss) = 1 THEN ss[1]
    ELSE ss[1] \o <<" ">> \o JoinSpace(Tail(ss))

HeaderKeywords == {<<"n","a","m","e">>, <<"m","e","m","b","e","r">>,
                   <<"p","e","r","s","o","n">>,
                   <<"a","t","t","e","n","d","e","e">>}

\* variant of start_row: the first row's text is not lower-cased
start_rowNoLower(df) ==
    LET first_row == [c \in 1..Len(df[1]) |-> Strip(StrOf(df[1][c]))]
    IN IF \E keyword \in HeaderKeywords : Contains(JoinSpace(first_row), keyword)
       THEN 1 ELSE 0

\* lines 374-376: 1 when the first row looks like a header, else 0
start_row(df) ==
    LET first_row == [c \in 1..Len(df[1]) |-> Strip(Lower(StrOf(df[1][c])))]
    IN IF \E keyword \in HeaderKeywords : Contains(JoinSpace(first_row), keyword)
       THEN 1 ELSE 0

\* line 383: the name of a row
RowName(row) == IF row[1].na THEN <<>> ELSE Strip(StrOf(row[1]))

\* variant of SkipName: the literals compared without lower-casing
SkipNameCaseSensitive(name) == name = <<>> \/ name \in {sNan, sNone, <<>>}

\* line 385: rows without a usable name are skipped
SkipName(name) == name = <<>> \/ Lower(name) \in {sNan, sNone, <<>>}

\* line 403 (the first glyph is listed twice there) and line 420
tick_indicators ==
    {<<"u2713">>, <<"u2714">>, <<"u2611">>, <<"x">>, <<"y","e","s">>, <<"y">>,
     <<"1">>, <<"p">>, <<"p","r","e","s","e","n","t">>, <<"u221a">>,
     <<"t","r","u","e">>, <<"t">>}
check_chars == {<<"u2713">>, <<"u2714">>, <<"u2611">>, <<"u221a">>}

\* variant of CellValue: the cell text is not lower-cased
CellValueNoLower(cell) == IF cell.na THEN <<>> ELSE Strip(StrOf(cell))

\* line 409
CellValue(cell) == IF cell.na THEN <<>> ELSE Lower(Strip(StrOf(cell)))

\* lines 405-422: scan the cells after the name column, stop at the first hit
RECURSIVE ScanCells(_, _)
ScanCells(row, col_idx) ==
    IF col_idx > Len(row) - 1 THEN FALSE
    ELSE IF CellValue(row[col_idx + 1]) = <<>> \/ CellValue(row[col_idx + 1]) = sNan
         THEN ScanCells(row, col_idx + 1)
    ELSE IF \E indicator \in tick_indicators :
                Contains(CellValue(row[col_idx + 1]), indicator)
         THEN TRUE
    ELSE IF \E char \in check_chars : Contains(CellValue(row[col_idx + 1]), char)
         THEN TRUE
    ELSE ScanCells(row, col_idx + 1)

is_present(row) == ScanCells(row, 1)

\* a dict as the sequence of its items in insertion order
DictHas(d, k) == \E i \in 1..Len(d) : d[i].name = k

DictSet(d, k, v) ==
    IF DictHas(d, k)
    THEN [i \in 1..Len(d) |-> IF d[i].name = k THEN [name |-> k, status |-> v] ELSE d[i]]
    ELSE Append(d, [name |-> k, status |-> v])

\* seen_names_lower as a set of <<lower-cased name, first casing>>
SeenHas(seen, name_lower) == \E e \in seen : e[1] = name_lower

\* variant of SeenGet: the lower-cased name is used as the key
SeenGetLower(seen, name_lower) == name_lower

SeenGet(seen, name_lower) == (CHOOSE e \in seen : e[1] = name_lower)[2]

\* line 430: the test that decides whether the row's status is stored
StoreStatus(present, attendance_dict, name_lower) ==
    present \/ ~DictHas(attendance_dict, name_lower)

\* lines 380-433: the body of the row loop; st is <<attendance_dict, seen>>
ProcessRow(st, row) ==
    LET name == RowName(row)
        name_normalized == Strip(name)
        name_lower == Lower(name_normalized)
        seen == IF SeenHas(st[2], name_lower) THEN st[2]
                ELSE st[2] \cup {<<name_lower, name_normalized>>}
        status == IF is_present(row) THEN Present ELSE NotPresent
    IN IF SkipName(name) THEN st
       ELSE IF SeenHas(seen, name_lower)
            THEN IF StoreStatus(is_present(row), st[1], name_lower)
                 THEN <<DictSet(st[1], SeenGet(seen, name_lower), status), seen>>
                 ELSE <<st[1], seen>>
            ELSE <<DictSet(st[1], name_normalized, status), seen>>

RECURSIVE ProcessRows(_, _, _)
ProcessRows(st, df, idx) ==
    IF idx > Len(df) - 1 THEN st
    ELSE ProcessRows(ProcessRow(st, df[idx + 1]), df, idx + 1)

\* the outcome of parse_attendance_file: the ValueError of line 442 (raised
\* for lines 355 and 364) or the returned dict
ParseResult(df, filename) ==
    IF ~(is_excel(filename) \/ is_csv(filename)) THEN [error |-> TRUE, dict |-> <<>>]
    ELSE IF df = <<>> THEN [error |-> TRUE, dict |-> <<>>]
    ELSE [error |-> FALSE,
          dict |-> ProcessRows(<< <<>>, {} >>, df, start_row(df))[1]]

\* AttendanceService.parse_attendance_file, lines 343-442, on the file the
\* upload endpoint received
parse_attendance_file ==
    /\ op = "upload"
    /\ ret' = ParseResult(call.df, call.filename)
    /\ op' = "parse_attendance_file"
    /\ UNCHANGED <<sheet, pre, call, ncalls, store, inflight>>

(***************************************************************************)
(* get_most_recent_attendance.  datetime.strptime is modelled for the      *)
(* seven formats of line 183; a date is the number year*10000+month*100+   *)
(* day, which orders dates as datetime does; -1 stands for ValueError.     *)
(***************************************************************************)
DigitVal == [c \in {"0","1","2","3","4","5","6","7","8","9"} |->
                CASE c = "0" -> 0 [] c = "1" -> 1 [] c = "2" -> 2 [] c = "3" -> 3
                  [] c = "4" -> 4 [] c = "5" -> 5 [] c = "6" -> 6 [] c = "7" -> 7
                  [] c = "8" -> 8 [] c = "9" -> 9]

IsDigits(s) == s # <<>> /\ \A i \in 1..Len(s) : s[i] \in DOMAIN DigitVal

RECURSIVE NumVal(_)
NumVal(s) == IF s = <<>> THEN 0
             ELSE 10 * NumVal(SubSeq(s, 1, Len(s) - 1)) + DigitVal[s[Len(s)]]

\* s.split(sep) for a one-character separator
RECURSIVE Split(_, _)
Split(s, sep) ==
    LET I == {i \in 1..Len(s) : s[i] = sep}
    IN IF I = {} THEN <<s>>
       ELSE <<SubSeq(s, 1, SetMin(I) - 1)>>
            \o Split(SubSeq(s, SetMin(I) + 1, Len(s)), sep)

\* %Y: four digits, year at least 1
DirY(s) == IF Len(s) = 4 /\ IsDigits(s) /\ NumVal(s) >= 1 THEN NumVal(s) ELSE -1
\* %y: two digits, 00-68 in 2000-2068 and 69-99 in 1969-1999
DirYShort(s) ==
    IF Len(s) = 2 /\ IsDigits(s)
    THEN (IF NumVal(s) <= 68 THEN 2000 + NumVal(s) ELSE 1900 + NumVal(s))
    ELSE -1
\* %m: 1-12, one or two digits
DirM(s) == IF Len(s) \in 1..2 /\ IsDigits(s) /\ NumVal(s) \in 1..12 THEN NumVal(s) ELSE -1
\* %d: 1-31, one or two digits, or a blank and one digit
DirD(s) ==
    IF Len(s) \in 1..2 /\ IsDigits(s) /\ NumVal(s) \in 1..31 THEN NumVal(s)
    ELSE IF Len(s) = 2 /\ s[1] = " " /\ IsDigits(Tail(s)) /\ NumVal(Tail(s)) >= 1
         THEN NumVal(Tail(s))
    ELSE -1

MonthNames ==
    << <<"j","a","n","u","a","r","y">>, <<"f","e","b","r","u","a","r","y">>,
       <<"m","a","r","c","h">>, <<"a","p","r","i","l">>, <<"m","a","y">>,
       <<"j","u","n","e">>, <<"j","u","l","y">>, <<"a","u","g","u","s","t">>,
       <<"s","e","p","t","e","m","b","e","r">>, <<"o","c","t","o","b","e","r">>,
       <<"n","o","v","e","m","b","e","r">>, <<"d","e","c","e","m","b","e","r">> >>

\* %B: a full month name, any letter case
DirB(s) ==
    IF \E m \in 1..12 : MonthNames[m] = Lower(s)
    THEN CHOOSE m \in 1..12 : MonthNames[m] = Lower(s) ELSE -1
\* %b: a three-letter month name, any letter case
DirBShort(s) ==
    IF \E m \in 1..12 : SubSeq(MonthNames[m], 1, 3) = Lower(s)
    THEN CHOOSE m \in 1..12 : SubSeq(MonthNames[m], 1, 3) = Lower(s) ELSE -1

IsLeap(y) == (y % 4 = 0 /\ y % 100 # 0) \/ y % 400 = 0
DaysIn(y, m) ==
    IF m = 2 THEN (IF IsLeap(y) THEN 29 ELSE 28)
    ELSE IF m \in {4, 6, 9, 11} THEN 30 ELSE 31

\* datetime(y, m, d), ValueError when a field failed or the day is too big
MkDate(y, m, d) ==
    IF y = -1 \/ m = -1 \/ d = -1 THEN -1
    ELSE IF d > DaysIn(y, m) THEN -1
    ELSE y * 10000 + m * 100 + d

LeadingSpaces(s) ==
    IF \A i \in 1..Len(s) : s[i] = " " THEN Len(s)
    ELSE SetMin({i \in 1..Len(s) : s[i] # " "}) - 1

DropSpaces(s) == SubSeq(s, LeadingSpaces(s) + 1, Len(s))

\* "%B %d, %Y": blanks of the format match one or more blanks
StrptimeLong(s) ==
    LET parts == Split(s, ",")
        left == parts[1]
        sp == {i \in 1..Len(left) : left[i] = " "}
        month == SubSeq(left, 1, SetMin(sp) - 1)
        day == DropSpaces(SubSeq(left, SetMin(sp), Len(left)))
    IN IF Len(parts) # 2 \/ sp = {} \/ LeadingSpaces(parts[2]) < 1 THEN -1
       ELSE IF ~IsDigits(day) THEN -1
       ELSE MkDate(DirY(DropSpaces(parts[2])), DirB(month), DirD(day))

DateFormats == <<"%Y-%m-%d", "%m/%d/%Y", "%d/%m/%Y", "%Y/%m/%d",
                 "%B %d, %Y", "%d-%b-%Y", "%d-%b-%y">>

\* datetime.strptime(s, date_format)
Strptime(s, date_format) ==
    LET dash == Split(s, "-")
        slash == Split(s, "/")
    IN CASE date_format = "%Y-%m-%d" ->
              IF Len(dash) # 3 THEN -1
              ELSE MkDate(DirY(dash[1]), DirM(dash[2]), DirD(dash[3]))
         [] date_format = "%m/%d/%Y" ->
              IF Len(slash) # 3 THEN -1
              ELSE MkDate(DirY(slash[3]), DirM(slash[1]), DirD(slash[2]))
         [] date_format = "%d/%m/%Y" ->
              IF Len(slash) # 3 THEN -1
              ELSE MkDate(DirY(slash[3]), DirM(slash[2]), DirD(slash[1]))
         [] date_format = "%Y/%m/%d" ->
              IF Len(slash) # 3 THEN -1
              ELSE MkDate(DirY(slash[1]), DirM(slash[2]), DirD(slash[3]))
         [] date_format = "%B %d, %Y" -> StrptimeLong(s)
         [] date_format = "%d-%b-%Y" ->
              IF Len(dash) # 3 THEN -1
              ELSE MkDate(DirY(dash[3]), DirBShort(dash[2]), DirD(dash[1]))
         [] date_format = "%d-%b-%y" ->
              IF Len(dash) # 3 THEN -1
              ELSE MkDate(DirYShort(dash[3]), DirBShort(dash[2]), DirD(dash[1]))

\* lines 182-189: the first format that parses decides; -1 when none does
RECURSIVE TryFormats(_, _)
TryFormats(header_clean, k) ==
    IF k > Len(DateFormats) THEN -1
    ELSE IF Strptime(header_clean, DateFormats[k]) # -1
         THEN Strptime(header_clean, DateFormats[k])
    ELSE TryFormats(header_clean, k + 1)

\* lines 172-189: (index, header, date) of every header that parses, in
\* column order; columns A and B are skipped
RECURSIVE DateColumnsFrom(_, _)
DateColumnsFrom(header_row, idx) ==
    IF idx > Len(header_row) - 1 THEN <<>>
    ELSE (IF idx = 0 \/ idx = 1 THEN <<>>
          ELSE IF Strip(header_row[idx + 1]) = <<>> THEN <<>>
          ELSE IF TryFormats(Strip(header_row[idx + 1]), 1) = -1 THEN <<>>
          ELSE << <<idx, Strip(header_row[idx + 1]),
                    TryFormats(Strip(header_row[idx + 1]), 1)>> >>)
         \o DateColumnsFrom(header_row, idx + 1)

\* insert e into a list sorted by date, latest first, after its equals
RECURSIVE InsertByDate(_, _)
InsertByDate(sorted, e) ==
    IF sorted = <<>> THEN <<e>>
    ELSE IF sorted[1][3] >= e[3] THEN <<sorted[1]>> \o InsertByDate(Tail(sorted), e)
    ELSE <<e>> \o sorted

\* variant of SortByDate: the sort without reverse=True, earliest first
RECURSIVE InsertByDateAscending(_, _)
InsertByDateAscending(sorted, e) ==
    IF sorted = <<>> THEN <<e>>
    ELSE IF sorted[1][3] <= e[3]
         THEN <<sorted[1]>> \o InsertByDateAscending(Tail(sorted), e)
    ELSE <<e>> \o sorted

RECURSIVE SortByDateAscending(_)
SortByDateAscending(date_columns) ==
    IF date_columns = <<>> THEN <<>>
    ELSE InsertByDateAscending(
             SortByDateAscending(SubSeq(date_columns, 1, Len(date_columns) - 1)),
             date_columns[Len(date_columns)])

\* variant of SortByDate: sorted earliest first and then reversed, which
\* puts the rightmost of equal dates first
RECURSIVE ReverseSeq(_)
ReverseSeq(q) == IF q = <<>> THEN <<>> ELSE Append(ReverseSeq(Tail(q)), q[1])

SortByDateReversed(date_columns) == ReverseSeq(SortByDateAscending(date_columns))

\* line 196: list.sort(key=date, reverse=True), a stable sort
RECURSIVE SortByDate(_)
SortByDate(date_columns) ==
    IF date_columns = <<>> THEN <<>>
    ELSE InsertByDate(SortByDate(SubSeq(date_columns, 1, Len(date_columns) - 1)),
                      date_columns[Len(date_columns)])

\* lines 133-137 and 210-214: the status read from a row
CellStatus(row, col) ==
    IF col < Len(row)
    THEN (IF row[col + 1] # <<>> THEN Strip(row[col + 1]) ELSE NotPresent)
    ELSE NotPresent

\* lines 126-137 and 203-214: name -> status read from one column
RECURSIVE ReadColumnFrom(_, _, _, _)
ReadColumnFrom(attendance_dict, all_values, col, row_idx) ==
    IF row_idx > Len(all_values) - 1 THEN attendance_dict
    ELSE IF Strip(NameCell(all_values[row_idx + 1])) = <<>>
         THEN ReadColumnFrom(attendance_dict, all_values, col, row_idx + 1)
    ELSE ReadColumnFrom(DictSet(attendance_dict,
                                Strip(NameCell(all_values[row_idx + 1])),
                                CellStatus(all_values[row_idx + 1], col)),
                        all_values, col, row_idx + 1)

ReadColumn(all_values, col) == ReadColumnFrom(<<>>, all_values, col, 1)

\* the pair get_most_recent_attendance returns
MostRecentResult(sh) ==
    LET all_values == get_all_values(sh)
        date_columns == DateColumnsFrom(all_values[1], 0)
        first == SortByDate(date_columns)[1]
    IN IF all_values = <<>> THEN [dict |-> <<>>, date |-> <<>>]
       ELSE IF date_columns = <<>> THEN [dict |-> <<>>, date |-> <<>>]
       ELSE [dict |-> ReadColumn(all_values, first[1]), date |-> first[2]]

\* AttendanceService.get_most_recent_attendance, lines 146-221
get_most_recent_attendance ==
    /\ op = "idle"
    /\ ret' = IF store # "up"
              THEN \* lines 217-221: the exception is printed, ({}, "") returned
                   [dict |-> <<>>, date |-> <<>>]
              ELSE MostRecentResult(sheet)
    /\ op' = "get_most_recent_attendance"
    /\ pre' = sheet
    /\ UNCHANGED <<sheet, call, ncalls, store, inflight>>

\* the mapping get_attendance_for_date returns from a readable store,
\* lines 99-139
AttendanceForDateResult(sh, date) ==
    LET all_values == get_all_values(sh)
    IN IF all_values = <<>> THEN <<>>
       ELSE IF FindDateCol(all_values[1], date) = -1 THEN <<>>
       ELSE ReadColumn(all_values, FindDateCol(all_values[1], date))

\* AttendanceService.get_attendance_for_date, lines 88-144; error is TRUE
\* when the call raises
get_attendance_for_date(date) ==
    /\ op = "idle"
    /\ ret' = IF store # "up"
              THEN \* lines 140-144: the exception is printed, {} returned
                   [error |-> FALSE, dict |-> <<>>]
              ELSE [error |-> FALSE, dict |-> AttendanceForDateResult(sheet, date)]
    /\ op' = "get_attendance_for_date"
    /\ pre' = sheet
    /\ call' = [date |-> date, attendance |-> <<>>]
    /\ UNCHANGED <<sheet, ncalls, store, inflight>>

(***************************************************************************)
(* Uploaded files.                                                         *)
(***************************************************************************)
\* name cells: NaN, blank, the literals, two casings of one name, a header
FileNameCells ==
    {NaCell, TextCell(<<" ">>), TextCell(<<"N","a","N">>),
     TextCell(sAl), TextCell(<<"a","l">>), TextCell(sName)}

\* cells after the name column: an empty one, a word without indicator, a
\* check mark, and a word with a capital indicator
FirstTickCells == {NaCell, TextCell(<<"N","o">>), TextCell(<<"u2713">>)}
SecondTickCells == {NaCell, TextCell(<<"Y","e","s">>)}

FileRows ==
    {<<n, a, b>> : n \in FileNameCells, a \in FirstTickCells, b \in SecondTickCells}

Files == SeqsUpTo(FileRows, MaxFileRows)

sCsv == <<"a",".","C","s","v">>
OtherFileNames == {<<"a",".","x","l","s","x">>, <<"a",".","x","l","s">>,
                   <<"a",".","t","x","t">>, <<"a","c","s","v">>}

\* first rows with a header word outside the name column, in several
\* casings, and rows that follow them
HeaderRows ==
    {<<TextCell(<<"N","o">>), TextCell(<<"A","t","t","e","n","d","e","e"," ">>), NaCell>>,
     <<NaCell, NaCell, TextCell(<<"P","E","R","S","O","N">>)>>,
     <<TextCell(sAl), TextCell(<<"M","e","m","b","e","r">>), NaCell>>}

RowsAfterHeader ==
    {<<TextCell(sAl), NaCell, TextCell(<<"Y","e","s">>)>>,
     <<TextCell(sBo), TextCell(<<"N","o">>), NaCell>>}

HeaderFiles ==
    {<<h>> : h \in HeaderRows} \cup {<<h, r>> : h \in HeaderRows, r \in RowsAfterHeader}

\* every file arrives as .csv; the short ones also under the other names
Uploads ==
    [df : Files, filename : {sCsv}]
        \cup [df : SeqsUpTo(FileRows, 1), filename : OtherFileNames]
        \cup [df : HeaderFiles, filename : {<<"a",".","x","l","s","x">>}]

InitParse ==
    /\ sheet = EmptySheet
    /\ pre = EmptySheet
    /\ op = "upload"
    /\ call \in Uploads
    /\ ret = "none"
    /\ ncalls = 0
    /\ store = "up"
    /\ inflight = NoRequests

NextParse == parse_attendance_file

SpecParse == InitParse /\ [][NextParse]_vars

(***************************************************************************)
(* Tables read by get_most_recent_attendance.                              *)
(***************************************************************************)
hIso == <<"2","0","2","4","-","0","1","-","0","5">>
hIsoFeb == <<"2","0","2","4","-","0","2","-","1","0"," ">>
hNotADate == <<"n","o","t","-","a","-","d","a","t","e">>
hUS == <<"0","1","/","0","2","/","2","0","2","4">>
hEU == <<"1","3","/","0","2","/","2","0","2","4">>
hSlashYMD == <<"2","0","2","3","/","1","2","/","3","1">>
hLong == <<"M","a","r","c","h"," ","1",","," ","2","0","2","4">>
hAbbr == <<"0","5","-","J","a","n","-","2","0","2","4">>
hAbbrShort == <<"1","5","-","F","e","b","-","2","4">>
hBadDay == <<"2","0","2","4","-","0","2","-","3","0">>
hLate == <<"2","0","2","5","-","0","1","-","0","1">>

\* headers of the date columns: each format, a tie, two that never parse
RecentHeaders == {<<>>, hIso, hIsoFeb, hNotADate, hUS, hEU, hSlashYMD, hLong, hAbbr, hAbbrShort, hBadDay}

\* a table with two members, three date columns C, D, E and a status in
\* every date cell
RecentTable(nameheader, headers) ==
    [r \in 1..MaxRows |-> [c \in 1..MaxCols |->
        IF c > 5 THEN <<>>
        ELSE IF r = 1 THEN (IF c = 1 THEN sID ELSE IF c = 2 THEN nameheader
                            ELSE headers[c - 2])
        ELSE IF r = 2 THEN (IF c = 1 THEN sOne ELSE IF c = 2 THEN sAl
                            ELSE IF c % 2 = 1 THEN Present ELSE NotPresent)
        ELSE IF r = 3 THEN (IF c = 1 THEN sOne ELSE IF c = 2 THEN sBo
                            ELSE IF c % 2 = 1 THEN NotPresent ELSE Present)
        ELSE <<>>]]

InitRecent ==
    /\ sheet \in {RecentTable(n, <<h3, h4, h5>>) :
                     n \in {sName, hLate},
                     h3 \in RecentHeaders, h4 \in RecentHeaders, h5 \in RecentHeaders}
    /\ pre = sheet
    /\ op = "idle"
    /\ call = NoCall
    /\ ret = "none"
    /\ ncalls = 0
    /\ store = "up"
    /\ inflight = NoRequests

NextRecent == get_most_recent_attendance

SpecRecent == InitRecent /\ [][NextRecent]_vars

(***************************************************************************)
(* The operations on a store that may be unreachable or not configured.    *)
(***************************************************************************)
InitFaults ==
    /\ sheet \in InitTables
    /\ pre = sheet
    /\ op = "idle"
    /\ call = NoCall
    /\ ret = "none"
    /\ ncalls = 0
    /\ store \in StoreStates
    /\ inflight = NoRequests

NextFaults ==
    \/ \E date \in Dates, attendance \in Observations :
          submit_attendance(date, attendance)
    \/ \E date \in Dates : get_attendance_for_date(date)
    \/ get_most_recent_attendance
    \/ Respond

SpecFaults == InitFaults /\ [][NextFaults]_vars

(***************************************************************************)
(* submit_attendance stepped through: a call reads the grid once, then     *)
(* issues its update_cell calls one by one; any of them may raise.  Two    *)
(* calls may be in progress at the same time (one per request).            *)
(***************************************************************************)
OtherRequest(p) == CHOOSE q \in Requests : q # p

\* variant of submit_read: the grid is taken from a copy made before any
\* call began instead of being read from the store
submit_read_stale(p, date, attendance) ==
    /\ inflight[p].pc = "idle"
    /\ get_all_values(pre) # <<>>
    /\ InGrid(SubmitWrites(get_all_values(pre), date, attendance))
    /\ inflight' = [inflight EXCEPT ![p] =
          [pc |-> "writing", date |-> date, attendance |-> attendance,
           writes |-> SubmitWrites(get_all_values(pre), date, attendance),
           done |-> 0, ret |-> "none",
           overlaps |-> inflight[OtherRequest(p)].pc = "writing"]]
    /\ UNCHANGED <<sheet, pre, op, call, ret, ncalls, store>>

\* lines 225-293: the call opens the sheet and reads the grid; every later
\* write is decided from this one snapshot.  overlaps records that the
\* other call was between its read and its return at that moment.
submit_read(p, date, attendance) ==
    /\ inflight[p].pc = "idle"
    /\ IF get_all_values(sheet) = <<>>
       THEN \* line 241: ValueError, re-raised at line 341
            inflight' = [inflight EXCEPT ![p] =
                [pc |-> "failed", date |-> date, attendance |-> attendance,
                 writes |-> <<>>, done |-> 0, ret |-> "error",
                 overlaps |-> inflight[OtherRequest(p)].pc = "writing"]]
       ELSE /\ InGrid(SubmitWrites(get_all_values(sheet), date, attendance))
            /\ inflight' = [inflight EXCEPT ![p] =
                [pc |-> "writing", date |-> date, attendance |-> attendance,
                 writes |-> SubmitWrites(get_all_values(sheet), date, attendance),
                 done |-> 0, ret |-> "none",
                 overlaps |-> inflight[OtherRequest(p)].pc = "writing"]]
    /\ UNCHANGED <<sheet, pre, op, call, ret, ncalls, store>>

\* variant of submit_write: the whole row is sent, taken from the table
\* as it was before the calls, with the one cell changed
submit_write_row(p) ==
    /\ inflight[p].pc = "writing"
    /\ inflight[p].done < Len(inflight[p].writes)
    /\ LET w == inflight[p].writes[inflight[p].done + 1]
       IN sheet' = [sheet EXCEPT ![w[1]] = [pre[w[1]] EXCEPT ![w[2]] = w[3]]]
    /\ inflight' = [inflight EXCEPT ![p].done = @ + 1]
    /\ UNCHANGED <<pre, op, call, ret, ncalls, store>>

\* one worksheet.update_cell of lines 271, 301, 308, 327, 329 succeeds
submit_write(p) ==
    /\ inflight[p].pc = "writing"
    /\ inflight[p].done < Len(inflight[p].writes)
    /\ LET w == inflight[p].writes[inflight[p].done + 1]
       IN sheet' = update_cell(sheet, w[1], w[2], w[3])
    /\ inflight' = [inflight EXCEPT ![p].done = @ + 1]
    /\ UNCHANGED <<pre, op, call, ret, ncalls, store>>

\* variant of submit_write_fails: the exception is caught and the call
\* returns normally
submit_write_fails_swallowed(p) ==
    /\ inflight[p].pc = "writing"
    /\ inflight[p].done < Len(inflight[p].writes)
    /\ inflight' = [inflight EXCEPT ![p].pc = "failed", ![p].ret = "ok"]
    /\ UNCHANGED <<sheet, pre, op, call, ret, ncalls, store>>

\* the update_cell raises: lines 336-341 print the exception and re-raise
\* it; the writes that were made stay, the others are never made
submit_write_fails(p) ==
    /\ inflight[p].pc = "writing"
    /\ inflight[p].done < Len(inflight[p].writes)
    /\ inflight' = [inflight EXCEPT ![p].pc = "failed", ![p].ret = "error"]
    /\ UNCHANGED <<sheet, pre, op, call, ret, ncalls, store>>

\* line 335: return True after the last write
submit_return(p) ==
    /\ inflight[p].pc = "writing"
    /\ inflight[p].done = Len(inflight[p].writes)
    /\ inflight' = [inflight EXCEPT ![p].pc = "done", ![p].ret = "ok"]
    /\ UNCHANGED <<sheet, pre, op, call, ret, ncalls, store>>

sCy == <<"C","y">>
sDi == <<"D","i">>

Obs(name, status) == [name |-> name, status |-> status]

\* the tables the overlapping calls start from: one or two members, with
\* or without the d1 column
OverlapTables ==
    {InitTable(h, n) : h \in {<<sID, sName>>, <<sID, sName, sD1>>,
                              <<sID, sName, sD1, sD2>>},
                       n \in {<<sAl>>, <<sAl, sBo>>}}

\* observations of the overlapping calls: nobody, both members, one
\* member and a newcomer, a newcomer alone
OverlapObservations ==
    {<<>>, <<Obs(sAl, Present), Obs(sBo, Present)>>,
     <<Obs(sAl, Present), Obs(sCy, NotPresent)>>, <<Obs(sDi, Present)>>}

OverlapDates == {sD1, sD2}

InitOverlap ==
    /\ sheet \in OverlapTables
    /\ pre = sheet
    /\ op = "idle"
    /\ call = NoCall
    /\ ret = "none"
    /\ ncalls = 0
    /\ store = "up"
    /\ inflight = NoRequests

NextOverlap ==
    \E p \in Requests :
        \/ \E date \in OverlapDates, attendance \in OverlapObservations :
              submit_read(p, date, attendance)
        \/ submit_write(p)
        \/ submit_write_fails(p)
        \/ submit_return(p)

SpecOverlap == InitOverlap /\ [][NextOverlap]_vars

(***************************************************************************)
(* Tables read by get_attendance_for_date: two date columns, cells that    *)
(* are empty, blank, or a status with or without surrounding blanks.       *)
(***************************************************************************)
ReadHeaders == {<<sD1, sD2>>, << <<" ","d","1">>, <<>> >>, <<sD2, sD1>>}

ReadRows ==
    {<<n, a, b>> : n \in {sAl, <<" ","B","o"," ">>, <<>>},
                   a \in {<<>>, <<" ">>, Present, <<" ">> \o NotPresent},
                   b \in {<<>>, NotPresent}}

\* one or two rows; the names that are not empty differ
ReadRowSeqs ==
    {q \in UNION {[1..k -> ReadRows] : k \in 1..2} :
        \A i, j \in 1..Len(q) : (i # j /\ q[i][1] # <<>>) => q[i][1] # q[j][1]}

ReadTable(headers, rows) ==
    [r \in 1..MaxRows |-> [c \in 1..MaxCols |->
        IF c > 4 THEN <<>>
        ELSE IF r = 1 THEN (IF c = 1 THEN sID ELSE IF c = 2 THEN sName
                            ELSE headers[c - 2])
        ELSE IF r - 1 <= Len(rows)
             THEN (IF c = 1 THEN sOne ELSE rows[r - 1][c - 1])
        ELSE <<>>]]

InitRead ==
    /\ sheet \in {ReadTable(h, q) : h \in ReadHeaders, q \in ReadRowSeqs}
    /\ pre = sheet
    /\ op = "idle"
    /\ call = NoCall
    /\ ret = "none"
    /\ ncalls = 0
    /\ store = "up"
    /\ inflight = NoRequests

NextRead == \E date \in Dates : get_attendance_for_date(date)

SpecRead == InitRead /\ [][NextRead]_vars

(***************************************************************************)
(* Vocabulary of the properties.                                           *)
(***************************************************************************)
Submitted == op = "submit_attendance" /\ ret = "ok"

\* rows below the header whose name cell is not blank
NamedRows(sh) == {r \in 2..MaxRows : Strip(sh[r][2]) # <<>>}

\* identities of the keys of an observation
KeyIdents(attendance) ==
    {Ident(attendance[i].name) : i \in 1..Len(attendance)}

\* statuses an observation gives to an identity
StatusesOf(attendance, id) ==
    {attendance[i].status :
        i \in {j \in 1..Len(attendance) : Ident(attendance[j].name) = id}}

\* columns whose trimmed header is the (trimmed) date
DateCols(sh, date) == {c \in 1..MaxCols : Strip(sh[1][c]) = Strip(date)}

\* columns whose header is the date key, as written or after trimming
KeyCols(sh, date) ==
    {c \in 1..MaxCols : sh[1][c] = date \/ Strip(sh[1][c]) = date}

AbsentNames == {<<>>, <<"n","a","n">>, <<"n","o","n","e">>}

\* C1: submitting the same (date, observation) again right after a
\* successful submission leaves the table exactly as the first call left it.
C1_Idempotent ==
    (Submitted /\ InGrid(SubmitWrites(get_all_values(sheet), call.date, call.attendance)))
        => SubmitResult(sheet, call.date, call.attendance) = sheet

\* C2: after a submission every row that had a name before the call and is
\* not mentioned in the observation holds "Not Present" in the date column
\* of its own row.
C2_ExplicitNegative ==
    Submitted =>
        \A r \in NamedRows(pre) :
            Ident(pre[r][2]) \notin KeyIdents(call.attendance)
                => \E c \in DateCols(sheet, call.date) : sheet[r][c] = NotPresent

\* C3: no date key is the header of two different columns, however many
\* times it is submitted.
C3_ColumnReuse ==
    \A d \in Dates : Cardinality(KeyCols(sheet, d)) <= 1

\* C4: a key that equals an existing row's name up to case and surrounding
\* blanks has its status written into that row, no row is appended for it,
\* and the row's name cell is left as it was.
C4_CaseInsensitiveIdentity ==
    Submitted =>
        \A r \in NamedRows(pre) :
            Ident(pre[r][2]) \in KeyIdents(call.attendance) =>
                /\ \E c \in DateCols(sheet, call.date) :
                      sheet[r][c] \in StatusesOf(call.attendance, Ident(pre[r][2]))
                /\ sheet[r][2] = pre[r][2]
                /\ \A q \in 2..MaxRows :
                      Ident(sheet[q][2]) = Ident(pre[r][2])
                          => Ident(pre[q][2]) = Ident(pre[r][2])

\* C5: the non-blank name cells stay pairwise different under trimmed
\* lower-case comparison.
C5_NamesUnique ==
    \A r1, r2 \in NamedRows(sheet) :
        r1 # r2 => Ident(sheet[r1][2]) # Ident(sheet[r2][2])

\* C9: a submission never appends a row whose name cell is blank, "nan" or
\* "none".
C9_NoAbsentRows ==
    Submitted =>
        \A r \in UsedRows(sheet) \ UsedRows(pre) :
            r >= 2 => Ident(sheet[r][2]) \notin AbsentNames

\* C13: a submission with an empty observation is answered with the
\* validation status 400 and writes nothing to the table (stated for the
\* tables that have a header row, where no other failure is in play).
C13_EmptyInputRejected ==
    (op = "submit_attendance" /\ call.attendance = <<>>
        /\ get_all_values(pre) # <<>>)
        => (attendance_endpoint_status(ret) = 400 /\ sheet = pre)

\* the column (1-based) the call resolved for its date from the table as
\* it was before the call
ResolvedCol(sh, date) == date_col_index(get_all_values(sh)[1], date) + 1

\* rows of a newly appended member: unused before the call
NewRows(before, after) == UsedRows(after) \ UsedRows(before)

\* C17: a submission changes no non-empty name cell and no non-empty
\* header cell, changes cells only in the resolved date column and in the
\* name cells of appended rows, and the used rows and the non-empty header
\* cells do not become fewer.
C17_NothingDeleted ==
    Submitted =>
        /\ \A r \in 2..MaxRows : pre[r][2] # <<>> => sheet[r][2] = pre[r][2]
        /\ \A c \in 1..MaxCols : pre[1][c] # <<>> => sheet[1][c] = pre[1][c]
        /\ \A r \in 1..MaxRows, c \in 1..MaxCols :
              sheet[r][c] # pre[r][c] =>
                  \/ c = ResolvedCol(pre, call.date)
                  \/ (c = 2 /\ r \in NewRows(pre, sheet))
        /\ UsedRows(pre) \subseteq UsedRows(sheet)
        /\ {c \in 1..MaxCols : pre[1][c] # <<>>}
              \subseteq {c \in 1..MaxCols : sheet[1][c] # <<>>}

\* C18: every row that had a name matching a key before the call holds,
\* in the resolved column of that same row, a status the observation gives
\* to that name; rows with an empty name cell above it do not matter.
C18_RowAlignment ==
    Submitted =>
        \A r \in NamedRows(pre) :
            Ident(pre[r][2]) \in KeyIdents(call.attendance) =>
                sheet[r][ResolvedCol(pre, call.date)]
                    \in StatusesOf(call.attendance, Ident(pre[r][2]))

\* the column a new date belongs in: the first empty header after the
\* name column, else the column after the last one, never column A or B
ExpectedNewCol(sh) ==
    LET w == Len(get_all_values(sh)[1])
        E == {c \in 3..w : Strip(sh[1][c]) = <<>>}
    IN IF E # {} THEN SetMin(E) ELSE IF w + 1 > 3 THEN w + 1 ELSE 3

\* C19: when no header outside columns A and B equals the date, the date
\* is written into that column and no other header cell changes.
C19_NewColumnPosition ==
    (Submitted /\ \A c \in 3..MaxCols : Strip(pre[1][c]) # call.date)
        => sheet[1] = [pre[1] EXCEPT ![ExpectedNewCol(pre)] = call.date]

\* a table with a named name column and a name in every used row
WellFormed(sh) ==
    /\ get_all_values(sh) # <<>>
    /\ Strip(sh[1][2]) # <<>>
    /\ \A r \in 2..MaxRows : r \in UsedRows(sh) => Strip(sh[r][2]) # <<>>

\* the status of the first key, in iteration order, with an identity
FirstStatus(attendance, id) ==
    attendance[SetMin({i \in 1..Len(attendance) :
                          Ident(attendance[i].name) = id})].status

\* C20: when several keys of an observation have the identity of an
\* existing row, the row receives the status of the first of them (stated
\* for tables with a name in every row, so that the row is the right one).
C20_FirstWinsExisting ==
    (Submitted /\ WellFormed(pre)) =>
        \A r \in NamedRows(pre) :
            Ident(pre[r][2]) \in KeyIdents(call.attendance) =>
                sheet[r][ResolvedCol(pre, call.date)]
                    = FirstStatus(call.attendance, Ident(pre[r][2]))

\* C15: when the store is unreachable or not configured, every operation
\* ends in an error its caller sees, never in an ordinary empty result.
C15_NoSwallowedError ==
    store # "up" =>
        /\ (op = "submit_attendance" => ret = "error")
        /\ (op = "get_attendance_for_date" => ret.error)
        /\ (op = "get_most_recent_attendance"
               => ret # [dict |-> <<>>, date |-> <<>>])

\* identities of the names in the table
TableIdents(sh) == {Ident(sh[r][2]) : r \in NamedRows(sh)}

\* positions of the keys that start a new member: the identity is in no
\* row of the table and in no earlier key
NewKeyIndices(sh, attendance) ==
    {i \in 1..Len(attendance) :
        /\ Ident(attendance[i].name) \notin TableIdents(sh)
        /\ \A j \in 1..(i - 1) :
              Ident(attendance[j].name) # Ident(attendance[i].name)}

\* C21: for an identity that is in no row before the call and has
\* several keys in the observation, exactly one row is appended; it holds
\* the trimmed name of the first of these keys and that key's status.
C21_FirstWinsNew ==
    Submitted =>
        \A i \in NewKeyIndices(pre, call.attendance) :
            \E r \in NewRows(pre, sheet) :
                /\ sheet[r][2] = Strip(call.attendance[i].name)
                /\ sheet[r][ResolvedCol(pre, call.date)] = call.attendance[i].status
                /\ \A q \in NewRows(pre, sheet) :
                      Ident(sheet[q][2]) = Ident(call.attendance[i].name) => q = r

\* C22: the k-th new member of the observation is placed in the k-th row
\* after the last row of the grid read by the call, with its trimmed name
\* in the name cell and a status of its in the resolved column, and the
\* name cells of the rows that existed are left as they were.
C22_AutoAdd ==
    Submitted =>
        /\ \A i \in NewKeyIndices(pre, call.attendance) :
              LET k == Cardinality({j \in NewKeyIndices(pre, call.attendance) : j <= i})
                  r == Len(get_all_values(pre)) + k
              IN /\ sheet[r][2] = Strip(call.attendance[i].name)
                 /\ sheet[r][ResolvedCol(pre, call.date)]
                       \in StatusesOf(call.attendance, Ident(call.attendance[i].name))
        /\ \A r \in 2..Len(get_all_values(pre)) : sheet[r][2] = pre[r][2]

\* C23 as stated: resolving or creating the date column never ends in an
\* error, whatever grid the store returns, the empty grid included.
C23_ResolutionTotal ==
    op = "submit_attendance" => ret = "ok"

\* C23 as amended: on a grid with at least one row the call ends without
\* error and a header cell holds the date key; on the empty grid it ends
\* in the error of line 241 and nothing is written.
C23_ResolutionNonEmpty ==
    op = "submit_attendance" =>
        IF get_all_values(pre) = <<>>
        THEN ret = "error" /\ sheet = pre
        ELSE ret = "ok" /\ KeyCols(sheet, call.date) # {}

\* a call on a table without the date created its column beyond the two
\* fixed ones
C23_Witness ==
    /\ op = "submit_attendance"
    /\ ret = "ok"
    /\ KeyCols(pre, call.date) = {}
    /\ \E c \in KeyCols(sheet, call.date) : c >= 3

\* C28: the read of a date returns, for every row with a name, the
\* trimmed content of the date cell, and "Not Present" when that cell is
\* empty or holds only blanks; no status is the empty string.
C28_ReadStatuses ==
    (op = "get_attendance_for_date"
        /\ \E c \in 3..MaxCols : Strip(sheet[1][c]) = call.date) =>
        LET c == SetMin({x \in 3..MaxCols : Strip(sheet[1][x]) = call.date})
        IN /\ \A r \in NamedRows(sheet) :
                 \E k \in 1..Len(ret.dict) :
                     /\ ret.dict[k].name = Strip(sheet[r][2])
                     /\ ret.dict[k].status =
                           IF Strip(sheet[r][c]) = <<>> THEN NotPresent
                           ELSE Strip(sheet[r][c])
           /\ \A k \in 1..Len(ret.dict) : ret.dict[k].status # <<>>

\* the mapping a read of the date gives on the table
ReadBack(sh, date) == AttendanceForDateResult(sh, date)

\* C29: after a successful submission the read of the same date string
\* has exactly one entry for every named row of the table, with a status
\* of the observation for the names it mentions and "Not Present" for the
\* others.
C29_RoundTrip ==
    Submitted =>
        /\ Len(ReadBack(sheet, call.date)) = Cardinality(NamedRows(sheet))
        /\ \A r \in NamedRows(sheet) :
              \E k \in 1..Len(ReadBack(sheet, call.date)) :
                  /\ ReadBack(sheet, call.date)[k].name = Strip(sheet[r][2])
                  /\ IF Ident(sheet[r][2]) \in KeyIdents(call.attendance)
                     THEN ReadBack(sheet, call.date)[k].status
                            \in StatusesOf(call.attendance, Ident(sheet[r][2]))
                     ELSE ReadBack(sheet, call.date)[k].status = NotPresent

(***************************************************************************)
(* Properties of the stepped calls.                                        *)
(***************************************************************************)
\* the writes a call has made so far
WritesDone(p) == SubSeq(inflight[p].writes, 1, inflight[p].done)

\* C14: when a write of a call fails, the call ends with the error (status
\* 500 at the endpoint) and not with success, the failing step leaves the
\* table as the earlier writes made it, the call makes no write and no
\* retry afterwards, and the table keeps exactly the writes made before
\* the failure (checked while the other call has not begun).
C14_StorageFailure ==
    [][\A p \in Requests :
          /\ (inflight[p].pc # "failed" /\ inflight'[p].pc = "failed") =>
                /\ sheet' = sheet
                /\ inflight'[p].ret = "error"
                /\ attendance_endpoint_status(inflight'[p].ret) = 500
          /\ inflight[p].pc = "failed" => inflight'[p] = inflight[p]
          /\ (inflight[p].pc = "failed"
                 /\ inflight[OtherRequest(p)].pc = "idle")
                => sheet = ApplyWrites(pre, WritesDone(p))]_vars

\* a call failed after it created the date header and wrote the first
\* member's row; the second member's row was never written
C14_Witness ==
    \E p \in Requests, c \in 3..MaxCols :
        /\ inflight[p].pc = "failed"
        /\ inflight[p].ret = "error"
        /\ inflight[OtherRequest(p)].pc = "idle"
        /\ pre[1][c] = <<>>
        /\ sheet[1][c] = inflight[p].date
        /\ pre[2][2] # <<>> /\ sheet[2][c] # <<>>
        /\ pre[3][2] # <<>> /\ sheet[3][c] = <<>>

BothDone == \A p \in Requests : inflight[p].pc = "done"

\* the table a call alone, and two calls one after the other, produce
\* from the starting table
Alone(p) == SubmitResult(pre, inflight[p].date, inflight[p].attendance)
Serial(p, q) ==
    SubmitResult(Alone(p), inflight[q].date, inflight[q].attendance)

Column(sh, c) == [r \in 1..MaxRows |-> sh[r][c]]

\* C16: the hazard comes from overlap.  Two calls of which neither began
\* while the other was in progress end in the table of one of the two
\* serial orders; C16_Witness is the overlapping run whose date column is
\* that of neither call alone and of neither serial order.
C16_LostUpdate ==
    (BothDone /\ \A p \in Requests : ~inflight[p].overlaps)
        => sheet \in {Serial(1, 2), Serial(2, 1)}

\* two overlapping calls for one date have returned and the date column is
\* none of the four columns a non-overlapping execution gives
C16_Witness ==
    /\ BothDone
    /\ inflight[1].date = inflight[2].date
    /\ \E p \in Requests : inflight[p].overlaps
    /\ \E c \in 3..MaxCols :
          /\ sheet[1][c] = inflight[1].date
          /\ \A T \in {Alone(1), Alone(2), Serial(1, 2), Serial(2, 1)} :
                /\ T[1][c] = inflight[1].date
                /\ Column(T, c) # Column(sheet, c)

\* no two calls for the same date key overlap
SerializedPerDate ==
    inflight[1].date = inflight[2].date
        => \A p \in Requests : ~inflight[p].overlaps

\* the call creates a column or a row: it writes a header or a name cell
CreatesStructure(p) ==
    \E i \in 1..Len(inflight[p].writes) :
        inflight[p].writes[i][1] = 1 \/ inflight[p].writes[i][2] = 2

AddedIdents ==
    UNION {KeyIdents(inflight[p].attendance) : p \in Requests}
        \ TableIdents(pre)

\* C30: also when calls overlap, a name cell that holds a name is never
\* given a different content, and once both calls have returned every
\* member they added has exactly one row.
C30_NewRowsUnderOverlap ==
    [][/\ \A r \in 2..MaxRows :
             sheet[r][2] # <<>> => sheet'[r][2] = sheet[r][2]
       /\ (\A p \in Requests : inflight'[p].pc = "done") =>
             \A id \in AddedIdents' :
                 Cardinality({r \in 2..MaxRows : Ident(sheet'[r][2]) = id}) = 1]_vars

(***************************************************************************)
(* Properties of parse_attendance_file.                                    *)
(***************************************************************************)
ParsedOk == op = "parse_attendance_file" /\ ~ret.error

\* identity of the name cell of a file row; NaN has none
FileNameIdent(row) == IF row[1].na THEN <<>> ELSE Ident(row[1].s)

\* the rows that are read as data and carry a name
DataRows(df) ==
    {i \in (start_row(df) + 1)..Len(df) : FileNameIdent(df[i]) \notin AbsentNames}

\* some cell after the name column contains an indicator
HasTick(row) ==
    \E c \in 2..Len(row) :
        ~row[c].na /\ \E ind \in tick_indicators : Contains(Lower(row[c].s), ind)

\* statuses the returned mapping gives to an identity
DictStatuses(d, id) ==
    {d[k].status : k \in {j \in 1..Len(d) : Ident(d[j].name) = id}}

OnlyRowOfName(df, i) ==
    \A j \in DataRows(df) : j # i => FileNameIdent(df[j]) # FileNameIdent(df[i])

\* C6: a name that has a ticked row among its rows is returned as
\* "Present", whatever the order of its rows and the casing of the first.
C6_PresentDominates ==
    ParsedOk =>
        \A i \in DataRows(call.df) :
            HasTick(call.df[i])
                => DictStatuses(ret.dict, FileNameIdent(call.df[i])) = {Present}

\* C7: a data row (the only one of its name) is returned as "Present" when
\* a cell after the name column contains an indicator and as "Not Present"
\* when none does; empty cells are no indicator.
C7_TickDetection ==
    ParsedOk =>
        \A i \in DataRows(call.df) :
            OnlyRowOfName(call.df, i) =>
                DictStatuses(ret.dict, FileNameIdent(call.df[i]))
                    = {IF HasTick(call.df[i]) THEN Present ELSE NotPresent}

\* a file with a row ticked only in its last cell and a row without a tick
C7_Witness ==
    /\ ParsedOk
    /\ \E i, j \in DataRows(call.df) :
          /\ OnlyRowOfName(call.df, i) /\ OnlyRowOfName(call.df, j)
          /\ call.df[i][2].na /\ HasTick(call.df[i])
          /\ ~HasTick(call.df[j])
          /\ DictStatuses(ret.dict, FileNameIdent(call.df[i])) = {Present}
          /\ DictStatuses(ret.dict, FileNameIdent(call.df[j])) = {NotPresent}

\* C8: a row whose name cell is NaN, blank, or "nan"/"none" in any casing
\* gives no key: the keys are exactly the names of the other data rows.
C8_SkipRule ==
    ParsedOk =>
        /\ \A k \in 1..Len(ret.dict) : Ident(ret.dict[k].name) \notin AbsentNames
        /\ {Ident(ret.dict[k].name) : k \in 1..Len(ret.dict)}
              = {FileNameIdent(call.df[i]) : i \in DataRows(call.df)}

\* a ticked row named "NaN" next to a row that is kept
C8_Witness ==
    /\ ParsedOk
    /\ ret.dict # <<>>
    /\ \E i \in (start_row(call.df) + 1)..Len(call.df) :
          /\ ~call.df[i][1].na
          /\ Ident(call.df[i][1].s) = sNan
          /\ HasTick(call.df[i])

\* the part of a filename from its last dot on, lower-cased
Extension(filename) ==
    LET I == {i \in 1..Len(filename) : filename[i] = "."}
    IN IF I = {} THEN <<>>
       ELSE Lower(SubSeq(filename, SetMax(I), Len(filename)))

SupportedExtensions ==
    {<<".","x","l","s","x">>, <<".","x","l","s">>, <<".","c","s","v">>}

\* C11: a file whose extension, compared without regard to case, is none
\* of .xlsx, .xls, .csv ends in an error and no mapping, whatever its rows.
C11_UnsupportedFormat ==
    (op = "parse_attendance_file"
        /\ Extension(call.filename) \notin SupportedExtensions)
        => ret = [error |-> TRUE, dict |-> <<>>]

\* a .txt file with a named, ticked row is refused
C11_Witness ==
    /\ op = "parse_attendance_file"
    /\ Extension(call.filename) = <<".","t","x","t">>
    /\ call.df # <<>>
    /\ FileNameIdent(call.df[1]) = <<"a","l">>
    /\ HasTick(call.df[1])
    /\ ret.error

\* C12: a file of a supported format that has no data row (no row at all,
\* only a header row, or only rows skipped for an absent name) ends in an
\* error, not in an empty mapping.
C12_EmptyFileError ==
    (op = "parse_attendance_file"
        /\ Extension(call.filename) \in SupportedExtensions
        /\ (call.df = <<>> \/ DataRows(call.df) = {}))
        => ret.error

\* the first data row that carries an identity
FirstRowOf(df, id) == SetMin({i \in DataRows(df) : FileNameIdent(df[i]) = id})

HeaderLike(row) ==
    \E c \in 1..Len(row), keyword \in HeaderKeywords :
        Contains(Lower(StrOf(row[c])), keyword)

\* identities of the named rows from row `first` on
NamedFrom(df, first) ==
    {FileNameIdent(df[i]) : i \in first..Len(df)} \ AbsentNames

\* C25: the first row is left out exactly when it contains a header word
\* in some cell, in any casing; otherwise it is read as data; every later
\* row is read as data in both cases.
C25_HeaderDetection ==
    ParsedOk =>
        {Ident(ret.dict[k].name) : k \in 1..Len(ret.dict)}
            = NamedFrom(call.df, IF HeaderLike(call.df[1]) THEN 2 ELSE 1)

\* a first row with a name and a capitalised header word in another cell
\* is left out, and the row after it is read
C25_Witness ==
    /\ ParsedOk
    /\ Len(call.df) = 2
    /\ FileNameIdent(call.df[1]) = <<"a","l">>
    /\ HeaderLike(call.df[1])
    /\ FileNameIdent(call.df[2]) = <<"b","o">>
    /\ Len(ret.dict) = 1
    /\ ret.dict[1].name = sBo

(***************************************************************************)
(* Properties of get_most_recent_attendance.                               *)
(***************************************************************************)
\* the date of a header: the first of the formats, in order, that parses it
HeaderDate(h) ==
    LET K == {k \in 1..Len(DateFormats) : Strptime(h, DateFormats[k]) # -1}
    IN IF K = {} THEN -1 ELSE Strptime(h, DateFormats[SetMin(K)])

\* columns outside A and B whose trimmed header is a date
DatedCols(sh) == {c \in 3..MaxCols : HeaderDate(Strip(sh[1][c])) # -1}

\* C10: the most recent lookup reads a column, outside the two fixed ones,
\* whose header date is the greatest, and returns that header; if no header
\* is a date it returns the empty mapping and the empty date.
C10_MostRecent ==
    op = "get_most_recent_attendance" =>
        IF DatedCols(sheet) = {}
        THEN ret = [dict |-> <<>>, date |-> <<>>]
        ELSE \E c \in DatedCols(sheet) :
                /\ \A c2 \in DatedCols(sheet) :
                      HeaderDate(Strip(sheet[1][c2])) <= HeaderDate(Strip(sheet[1][c]))
                /\ ret.date = Strip(sheet[1][c])
                /\ ret.dict = ReadColumn(get_all_values(sheet), c - 1)

\* the dated column that is read: the leftmost of those with the greatest
\* date
LeftmostLatest(sh) ==
    SetMin({c \in DatedCols(sh) :
               \A c2 \in DatedCols(sh) :
                   HeaderDate(Strip(sh[1][c2])) <= HeaderDate(Strip(sh[1][c]))})

\* C26: when several headers have the greatest date, the column with the
\* smallest index among them is the one that is read and whose header is
\* returned.
C26_TieBreakLeftmost ==
    (op = "get_most_recent_attendance" /\ DatedCols(sheet) # {}) =>
        /\ ret.date = Strip(sheet[1][LeftmostLatest(sheet)])
        /\ ret.dict = ReadColumn(get_all_values(sheet), LeftmostLatest(sheet) - 1)

\* two columns whose headers are written differently and have the same,
\* greatest, date; their cells differ and the left one is returned
C26_Witness ==
    /\ op = "get_most_recent_attendance"
    /\ \E c1, c2 \in DatedCols(sheet) :
          /\ c1 = LeftmostLatest(sheet)
          /\ c1 < c2
          /\ HeaderDate(Strip(sheet[1][c1])) = HeaderDate(Strip(sheet[1][c2]))
          /\ Strip(sheet[1][c1]) # Strip(sheet[1][c2])
          /\ sheet[2][c1] # sheet[2][c2]
          /\ ret.date = Strip(sheet[1][c1])
          /\ ret.dict = ReadColumn(get_all_values(sheet), c1 - 1)

\* two different dates and a header that is no date; the later one is read
C10_Witness ==
    /\ op = "get_most_recent_attendance"
    /\ \E c1, c2 \in DatedCols(sheet) :
          /\ c1 < c2
          /\ HeaderDate(Strip(sheet[1][c1])) > HeaderDate(Strip(sheet[1][c2]))
          /\ ret.date = Strip(sheet[1][c1])
    /\ \E c \in 3..MaxCols : sheet[1][c] = hNotADate
====
